---------------------------- MODULE Spec2Model ----------------------------
(***************************************************************************)
(* A model of windows-ctl: the decoder of Windows Certificate Trust Lists  *)
(* (windows-ctl/src/lib.rs) and of the ctltool consumer                    *)
(* (ctltool/src/main.rs).                                                  *)
(*                                                                         *)
(* Byte strings are sequences of naturals below 256.  The DER reader and   *)
(* writer below are the part of the `der`, `pkcs7`, `spki` and `x509_cert` *)
(* crates that the derived schemas of lib.rs call into.                    *)
(*                                                                         *)
(* Option<T> is a sequence of length at most one: <<>> is None and <<x>>   *)
(* is Some(x).  Result<T, der::Error> is [ok |-> TRUE, val |-> x] or       *)
(* [ok |-> FALSE]; a reader's result also holds `rest`, the bytes after    *)
(* the value read.                                                         *)
(***************************************************************************)
EXTENDS Integers, Sequences, FiniteSets, TLC

VARIABLES
    \* CertificateTrustList::from_der, one call
    source,        \* the bytes of the input stream
    cut,           \* how many bytes of `source` the stream holds (its length)
    dpc,           \* position in from_der
    der,           \* the buffer read_to_end filled
    body,          \* the decoded ContentInfo
    steps,         \* the stages of from_der that ran, in order
    dresult,       \* the value from_der returned
    \* TrustedSubject::extended_key_usages, one iteration
    subject,       \* the TrustedSubject iterated
    epc,           \* position of the iterator's consumer
    pending,       \* the elements the iterator has still to yield
    yielded,       \* the elements the iterator yielded
    \* the encoder and decoder of the CertificateTrustList schema
    ctl,           \* the value
    rpc,           \* position in the round trip
    encoded,       \* its encoding
    decoded,       \* the result of decoding `encoded`
    \* ctltool fetch
    fargs,         \* the arguments and the files they name
    fpc,           \* position in fetch
    fctl,          \* the list load_ctl returned
    created,       \* whether fetch created the output file
    entries,       \* the trusted subjects of the loaded list
    purposes,      \* the set of purposes the caller supplied
    idx,           \* index of the next entry of the loop
    requested,     \* the certificate ids requested, in order
    skipped,       \* the indices of the entries the filter skipped
    output,        \* the records written to the output file
    ferror,        \* the error fetch returned, "" when none
    \* ctltool dump
    dumpArgs,      \* the arguments and the file they name
    dumpPc,        \* position in dump
    dumpEntries,   \* the trusted subjects of the loaded list
    dumpIdx,       \* index of the next entry to serialize
    dumpOut,       \* the JSON objects written to stdout
    dumpErr        \* the error dump returned, "" when none

derVars == <<source, cut, dpc, der, body, steps, dresult>>
ekuVars == <<subject, epc, pending, yielded>>
rtVars == <<ctl, rpc, encoded, decoded>>
fetchVars ==
    <<fargs, fpc, fctl, created, entries, purposes, idx, requested, skipped,
      output, ferror>>
dumpVars == <<dumpArgs, dumpPc, dumpEntries, dumpIdx, dumpOut, dumpErr>>
vars == <<derVars, ekuVars, rtVars, fetchVars, dumpVars>>

----------------------------------------------------------------------------
(* Bounds of the model *)

MaxSubjects == 2

MaxAttrs == 2

MaxValues == 2

----------------------------------------------------------------------------
(* ASN.1 tags *)

TagInteger == 2

TagOctetString == 4

TagNull == 5

TagOid == 6

TagUtcTime == 23

TagGeneralizedTime == 24

TagSequence == 48

TagSet == 49

TagContext0 == 160

TagContext1 == 161

(* The object identifiers of the program, as DER content bytes *)

\* 1.3.6.1.4.1.311.10.1
MS_CERT_TRUST_LIST_OID == <<43, 6, 1, 4, 1, 130, 55, 10, 1>>

\* 1.3.6.1.4.1.311.10.11.9
MS_CERT_PROP_ID_METAEKUS_OID == <<43, 6, 1, 4, 1, 130, 55, 10, 11, 9>>

\* 1.2.840.113549.1.7.1 .. 1.2.840.113549.1.7.6, the content types of PKCS#7
Pkcs7Oid(n) == <<42, 134, 72, 134, 247, 13, 1, 7, n>>

ContentTypeName(n) ==
    CASE n = 1 -> "Data"
      [] n = 2 -> "SignedData"
      [] n = 3 -> "EnvelopedData"
      [] n = 4 -> "SignedAndEnvelopedData"
      [] n = 5 -> "DigestedData"
      [] n = 6 -> "EncryptedData"

\* 1.3.6.1.5.5.7.3.n, the key purposes of PKIX
KpOid(n) == <<43, 6, 1, 5, 5, 7, 3, n>>

----------------------------------------------------------------------------
(* The DER reader *)

None == <<>>

Some(x) == <<x>>

DerErr == [ok |-> FALSE]

Val(v) == [ok |-> TRUE, val |-> v]

Ok(v, r) == [ok |-> TRUE, val |-> v, rest |-> r]

Drop(b, n) == SubSeq(b, n + 1, Len(b))

\* der::Tag::try_from(u8): the identifier octets the reader knows
ValidTag(t) ==
    \/ t \in {1, 2, 3, 4, 5, 6, 9, 10, 12, 18, 19, 20, 22, 23, 24, 26, 30, 48, 49}
    \/ (t >= 64 /\ t <= 254 /\ t % 32 # 31)

\* The length octets after the tag at b[1]: <<header length, content length>>,
\* or <<>> when they are the indefinite form (128), a long form that is not
\* minimal, or cut short.  Inputs are shorter than 65536 bytes, so a
\* length of three or four octets asks for more than any of them holds.
ReadLength(b) ==
    IF Len(b) < 2 THEN <<>>
    ELSE IF b[2] < 128 THEN <<2, b[2]>>
    ELSE IF b[2] = 129
    THEN (IF Len(b) >= 3 /\ b[3] >= 128 THEN <<3, b[3]>> ELSE <<>>)
    ELSE IF b[2] = 130
    THEN (IF Len(b) >= 4 /\ b[3] # 0 THEN <<4, b[3] * 256 + b[4]>> ELSE <<>>)
    ELSE <<>>

\* TLVAt without the check that the content is all there: a value cut short
\* is read as what is left of it
TLVAtShortRead(b, l) ==
    IF Len(b) < 2 \/ l = <<>> THEN DerErr
    ELSE IF ~ValidTag(b[1]) THEN DerErr
    ELSE IF Len(b) < l[1] + l[2]
    THEN Ok([tag |-> b[1], value |-> SubSeq(b, l[1] + 1, Len(b))], <<>>)
    ELSE Ok([tag |-> b[1], value |-> SubSeq(b, l[1] + 1, l[1] + l[2])],
            Drop(b, l[1] + l[2]))

\* The value whose header has the lengths l: exactly l[2] bytes of content
TLVAt(b, l) ==
    IF Len(b) < 2 \/ l = <<>> THEN DerErr
    ELSE IF ~ValidTag(b[1]) THEN DerErr
    ELSE IF Len(b) < l[1] + l[2] THEN DerErr
    ELSE Ok([tag |-> b[1], value |-> SubSeq(b, l[1] + 1, l[1] + l[2])],
            Drop(b, l[1] + l[2]))

\* One tag-length-value, as an Any (a tag and its raw content)
ReadTLV(b) == TLVAt(b, ReadLength(b))

DecodeAny(b) == ReadTLV(b)

\* A typed value is read as its header and content, then decoded from them:
\* As(a) is Any::decode_as::<T> (T's tag check and T::decode_value)
Lift(v, rest) == IF v.ok THEN Ok(v.val, rest) ELSE DerErr

DecodeFrom(h, As(_)) == IF h.ok THEN Lift(As(h.val), h.rest) ELSE DerErr

Decode(b, As(_)) == DecodeFrom(ReadTLV(b), As)

\* T::from_der: one value and nothing after it
Finish(r) == IF r.ok /\ r.rest = <<>> THEN Val(r.val) ELSE DerErr

\* ObjectIdentifier: the content bytes, not empty, the last arc terminated
ValidOidBytes(c) == Len(c) > 0 /\ c[Len(c)] < 128

AsOid(a) == IF a.tag = TagOid /\ ValidOidBytes(a.value) THEN Val(a.value) ELSE DerErr

DecodeOid(b) == Decode(b, AsOid)

AsOctetString(a) == IF a.tag = TagOctetString THEN Val(a.value) ELSE DerErr

DecodeOctetString(b) == Decode(b, AsOctetString)

\* Uint: a non-negative INTEGER in its minimal form; the value is the
\* content without the sign octet
UintFromContent(c) ==
    IF Len(c) = 0 THEN None
    ELSE IF c = <<0>> THEN Some(c)
    ELSE IF c[1] = 0 /\ c[2] < 128 THEN None
    ELSE IF c[1] = 0 THEN Some(Tail(c))
    ELSE IF c[1] >= 128 THEN None
    ELSE Some(c)

OptToResult(o) == IF o = None THEN DerErr ELSE Val(o[1])

AsUint(a) ==
    IF a.tag = TagInteger THEN OptToResult(UintFromContent(a.value)) ELSE DerErr

DecodeUint(b) == Decode(b, AsUint)

\* An INTEGER-typed enumeration with the discriminants 0 .. max
EnumeratedFrom(u, max) ==
    IF u.ok /\ Len(u.val) = 1 /\ u.val[1] <= max THEN Val(u.val[1]) ELSE DerErr

AsEnumerated(a, max) == EnumeratedFrom(AsUint(a), max)

\* Option<T>::decode: T is read when the next tag is one of T's, and the
\* field is absent otherwise
NextTagIs(b, tags) == Len(b) > 0 /\ b[1] \in tags

OptFrom(r) == IF r.ok THEN Ok(Some(r.val), r.rest) ELSE DerErr

DecodeOpt(b, tags, As(_)) ==
    IF NextTagIs(b, tags) THEN OptFrom(Decode(b, As)) ELSE Ok(None, b)

\* Option<Any>: any value that is there
DecodeOptAny(b) == IF b = <<>> THEN Ok(None, b) ELSE OptFrom(DecodeAny(b))

\* The elements of a constructed value, read until its content is used up
RECURSIVE Elements(_)

Cons(x, r) == IF r.ok THEN Val(<<x>> \o r.val) ELSE DerErr

ElementsFrom(h) == IF h.ok THEN Cons(h.val, Elements(h.rest)) ELSE DerErr

Elements(c) == IF c = <<>> THEN Val(<<>>) ELSE ElementsFrom(ReadTLV(c))

\* SEQUENCE OF T and SET OF T: every element as a T, in order
MapAs(es, As(_)) ==
    IF es.ok /\ \A i \in 1..Len(es.val) : As(es.val[i]).ok
    THEN Val([i \in 1..Len(es.val) |-> As(es.val[i]).val])
    ELSE DerErr

AsSequenceOf(a, As(_)) ==
    IF a.tag = TagSequence THEN MapAs(Elements(a.value), As) ELSE DerErr

\* The elements of a SET OF are kept in the order of their encodings, the
\* order a DER writer emits; the documents of the model are written so.
AsSetOf(a, As(_)) ==
    IF a.tag = TagSet THEN MapAs(Elements(a.value), As) ELSE DerErr

\* The fields of a SEQUENCE, read in their order from its content: each
\* field is decoded from what the fields before it left
Start(c) == Ok(<<>>, c)

Put(fields, name, r) ==
    IF r.ok THEN Ok(fields @@ (name :> r.val), r.rest) ELSE DerErr

Field(acc, name, Dec(_)) ==
    IF acc.ok THEN Put(acc.val, name, Dec(acc.rest)) ELSE DerErr

\* The end of the SEQUENCE: no content may be left over
Done(acc) == IF acc.ok /\ acc.rest = <<>> THEN Val(acc.val) ELSE DerErr

\* [0] EXPLICIT: the context tag wraps one whole value
AsExplicit0(a) ==
    IF a.tag = TagContext0 THEN Finish(DecodeAny(a.value)) ELSE DerErr

DecodeOptExplicit0(b) == DecodeOpt(b, {TagContext0}, AsExplicit0)

----------------------------------------------------------------------------
(* The DER writer *)

\* The length octets: the short form below 128, else the minimal long form
EncodeLength(n) ==
    IF n < 128 THEN <<n>>
    ELSE IF n < 256 THEN <<129, n>>
    ELSE <<130, n \div 256, n % 256>>

EncodeTLV(tag, content) == <<tag>> \o EncodeLength(Len(content)) \o content

EncodeOid(o) == EncodeTLV(TagOid, o)

EncodeOctetString(o) == EncodeTLV(TagOctetString, o)

EncodeAny(a) == EncodeTLV(a.tag, a.value)

\* Uint: a sign octet goes before a value whose first bit is set
EncodeUint(u) ==
    EncodeTLV(TagInteger, IF u[1] >= 128 THEN <<0>> \o u ELSE u)

EncodeEnumerated(n) == EncodeTLV(TagInteger, <<n>>)

\* Option<T>: nothing when absent
EncodeOpt(o, Enc(_)) == IF o = None THEN <<>> ELSE Enc(o[1])

RECURSIVE Concat(_)
Concat(ss) == IF ss = <<>> THEN <<>> ELSE Head(ss) \o Concat(Tail(ss))

\* Iterator::flat_map, and the content of a SEQUENCE OF
FlatMap(xs, F(_)) == Concat([i \in 1..Len(xs) |-> F(xs[i])])

EncodeExplicit0(a) == EncodeTLV(TagContext0, EncodeAny(a))

----------------------------------------------------------------------------
(* Time ::= CHOICE { utcTime UTCTime, generalTime GeneralizedTime } *)

IsDigit(c) == c >= 48 /\ c <= 57

Dec2(c, i) == (c[i] - 48) * 10 + (c[i + 1] - 48)

Enc2(n) == <<48 + (n \div 10), 48 + (n % 10)>>

IsLeap(y) == (y % 4 = 0 /\ y % 100 # 0) \/ y % 400 = 0

DaysInMonth(y, m) ==
    IF m \in {4, 6, 9, 11} THEN 30
    ELSE IF m = 2 THEN (IF IsLeap(y) THEN 29 ELSE 28)
    ELSE 31

\* der::DateTime::new
ValidDateTime(t) ==
    /\ t.year >= 1970 /\ t.year <= 9999
    /\ t.month >= 1 /\ t.month <= 12
    /\ t.day >= 1 /\ t.day <= DaysInMonth(t.year, t.month)
    /\ t.hour <= 23 /\ t.minute <= 59 /\ t.second <= 59

CheckedDateTime(t) == IF ValidDateTime(t) THEN Val(t) ELSE DerErr

\* MMDDHHMMSS at c[i ..]
DateTime(kind, y, c, i) ==
    [kind |-> kind, year |-> y, month |-> Dec2(c, i), day |-> Dec2(c, i + 2),
     hour |-> Dec2(c, i + 4), minute |-> Dec2(c, i + 6), second |-> Dec2(c, i + 8)]

\* UTCTime is YYMMDDHHMMSSZ, years 50..99 are 19YY and 00..49 are 20YY
UtcYear(c) == IF Dec2(c, 1) >= 50 THEN 1900 + Dec2(c, 1) ELSE 2000 + Dec2(c, 1)

UtcTimeFromContent(c) ==
    IF Len(c) = 13 /\ c[13] = 90 /\ \A i \in 1..12 : IsDigit(c[i])
    THEN CheckedDateTime(DateTime("utc", UtcYear(c), c, 3))
    ELSE DerErr

\* GeneralizedTime is YYYYMMDDHHMMSSZ
GeneralizedTimeFromContent(c) ==
    IF Len(c) = 15 /\ c[15] = 90 /\ \A i \in 1..14 : IsDigit(c[i])
    THEN CheckedDateTime(DateTime("general", Dec2(c, 1) * 100 + Dec2(c, 3), c, 5))
    ELSE DerErr

AsTime(a) ==
    IF a.tag = TagUtcTime THEN UtcTimeFromContent(a.value)
    ELSE IF a.tag = TagGeneralizedTime THEN GeneralizedTimeFromContent(a.value)
    ELSE DerErr

DecodeTime(b) == Decode(b, AsTime)

DecodeOptTime(b) == DecodeOpt(b, {TagUtcTime, TagGeneralizedTime}, AsTime)

EncodeTimeOfDay(t) ==
    Enc2(t.month) \o Enc2(t.day) \o Enc2(t.hour) \o Enc2(t.minute)
    \o Enc2(t.second) \o <<90>>

EncodeTime(t) ==
    IF t.kind = "utc"
    THEN EncodeTLV(TagUtcTime, Enc2(t.year % 100) \o EncodeTimeOfDay(t))
    ELSE EncodeTLV(TagGeneralizedTime,
                   Enc2(t.year \div 100) \o Enc2(t.year % 100) \o EncodeTimeOfDay(t))

----------------------------------------------------------------------------
(* SEQUENCE OF OBJECT IDENTIFIER: MetaEku and ExtendedKeyUsage *)

AsOidSeq(a) == AsSequenceOf(a, AsOid)

DecodeOidSeq(b) == Decode(b, AsOidSeq)

EncodeOidSeq(os) == EncodeTLV(TagSequence, FlatMap(os, EncodeOid))

\* MetaEku::from_der
MetaEkuFromDer(b) == Finish(DecodeOidSeq(b))

----------------------------------------------------------------------------
(* AlgorithmIdentifier ::= SEQUENCE { algorithm OID, parameters ANY OPTIONAL } *)

AsAlgorithmIdentifier(a) ==
    IF a.tag = TagSequence
    THEN Done(Field(Field(Start(a.value),
            "oid", DecodeOid),
            "parameters", DecodeOptAny))
    ELSE DerErr

DecodeAlgorithmIdentifier(b) == Decode(b, AsAlgorithmIdentifier)

EncodeAlgorithmIdentifier(a) ==
    EncodeTLV(TagSequence, EncodeOid(a.oid) \o EncodeOpt(a.parameters, EncodeAny))

----------------------------------------------------------------------------
(* Attribute ::= SEQUENCE { oid OID, values SET OF ANY }                   *)
(* Attributes ::= SET OF Attribute                                         *)

AsAnySet(a) == AsSetOf(a, Val)

DecodeAnySet(b) == Decode(b, AsAnySet)

AsAttribute(a) ==
    IF a.tag = TagSequence
    THEN Done(Field(Field(Start(a.value),
            "oid", DecodeOid),
            "values", DecodeAnySet))
    ELSE DerErr

EncodeAttribute(a) ==
    EncodeTLV(TagSequence,
        EncodeOid(a.oid) \o EncodeTLV(TagSet, FlatMap(a.values, EncodeAny)))

AsAttributes(a) == AsSetOf(a, AsAttribute)

DecodeOptAttributes(b) == DecodeOpt(b, {TagSet}, AsAttributes)

EncodeAttributes(as) == EncodeTLV(TagSet, FlatMap(as, EncodeAttribute))

----------------------------------------------------------------------------
(* TrustedSubject ::= SEQUENCE {                                           *)
(*   subjectIdentifier SubjectIdentifier,                                  *)
(*   subjectAttributes Attributes OPTIONAL }                               *)

AsTrustedSubject(a) ==
    IF a.tag = TagSequence
    THEN Done(Field(Field(Start(a.value),
            "identifier", DecodeOctetString),
            "attributes", DecodeOptAttributes))
    ELSE DerErr

EncodeTrustedSubject(s) ==
    EncodeTLV(TagSequence,
        EncodeOctetString(s.identifier) \o EncodeOpt(s.attributes, EncodeAttributes))

\* TrustedSubjects ::= SEQUENCE OF TrustedSubject
AsTrustedSubjects(a) == AsSequenceOf(a, AsTrustedSubject)

DecodeOptTrustedSubjects(b) == DecodeOpt(b, {TagSequence}, AsTrustedSubjects)

EncodeTrustedSubjects(ss) == EncodeTLV(TagSequence, FlatMap(ss, EncodeTrustedSubject))

\* TrustedSubject::cert_id
cert_id(s) == s.identifier

----------------------------------------------------------------------------
(* CertificateTrustList ::= SEQUENCE {                                     *)
(*   version CTLVersion DEFAULT v1,                                        *)
(*   subjectUsage SubjectUsage,                                            *)
(*   listIdentifier ListIdentifier OPTIONAL,                               *)
(*   sequenceNumber HUGEINTEGER OPTIONAL,                                  *)
(*   ctlThisUpdate ChoiceOfTime,                                           *)
(*   ctlNextUpdate ChoiceOfTime OPTIONAL,                                  *)
(*   subjectAlgorithm AlgorithmIdentifier,                                 *)
(*   trustedSubjects TrustedSubjects OPTIONAL,                             *)
(*   ctlExtensions [0] EXPLICIT Extensions OPTIONAL }                      *)

\* CtlVersion: V1 = 0 is the only discriminant, and the default
CtlVersionV1 == 0

AsCtlVersion(a) == AsEnumerated(a, CtlVersionV1)

\* #[asn1(default = "Default::default")]: read when there, else the default
DecodeCtlVersion(b) ==
    IF NextTagIs(b, {TagInteger}) THEN Decode(b, AsCtlVersion)
    ELSE Ok(CtlVersionV1, b)

\* EncodeCtlVersion writing the field whatever it holds
EncodeCtlVersionAlways(v) == EncodeEnumerated(v)

\* The writer leaves out a field that holds its default
EncodeCtlVersion(v) == IF v = CtlVersionV1 THEN <<>> ELSE EncodeEnumerated(v)

DecodeOptListIdentifier(b) == DecodeOpt(b, {TagOctetString}, AsOctetString)

DecodeOptSequenceNumber(b) == DecodeOpt(b, {TagInteger}, AsUint)

\* The fields of the SEQUENCE, in order, from its content bytes
DecodeCtlFields(c) ==
    Done(Field(Field(Field(Field(Field(Field(Field(Field(Field(Start(c),
        "version", DecodeCtlVersion),
        "subject_usage", DecodeOidSeq),
        "list_identifier", DecodeOptListIdentifier),
        "sequence_number", DecodeOptSequenceNumber),
        "this_update", DecodeTime),
        "next_update", DecodeOptTime),
        "subject_algorithm", DecodeAlgorithmIdentifier),
        "trusted_subjects", DecodeOptTrustedSubjects),
        "ctl_extensions", DecodeOptExplicit0))

\* Any::decode_as::<CertificateTrustList>: the tag, then the value alone
AsCtl(a) == IF a.tag = TagSequence THEN DecodeCtlFields(a.value) ELSE DerErr

EncodeCtlFields(v) ==
    EncodeCtlVersion(v.version)
    \o EncodeOidSeq(v.subject_usage)
    \o EncodeOpt(v.list_identifier, EncodeOctetString)
    \o EncodeOpt(v.sequence_number, EncodeUint)
    \o EncodeTime(v.this_update)
    \o EncodeOpt(v.next_update, EncodeTime)
    \o EncodeAlgorithmIdentifier(v.subject_algorithm)
    \o EncodeOpt(v.trusted_subjects, EncodeTrustedSubjects)
    \o EncodeOpt(v.ctl_extensions, EncodeExplicit0)

EncodeCtl(v) == EncodeTLV(TagSequence, EncodeCtlFields(v))

\* Decode::from_der of the CertificateTrustList schema
CtlFromDer(b) == Finish(Decode(b, AsCtl))

----------------------------------------------------------------------------
(* The PKCS#7 envelope: pkcs7::ContentInfo and its SignedData content      *)

\* pkcs7::ContentType: one of the six content types, by its identifier
ContentTypeOf(o) ==
    IF o.ok /\ \E n \in 1..6 : o.val = Pkcs7Oid(n)
    THEN Val(ContentTypeName(CHOOSE n \in 1..6 : o.val = Pkcs7Oid(n)))
    ELSE DerErr

AsContentType(a) == ContentTypeOf(AsOid(a))

DecodeContentType(b) == Decode(b, AsContentType)

\* CmsVersion: V0 .. V5
CmsVersionMax == 5

AsCmsVersion(a) == AsEnumerated(a, CmsVersionMax)

DecodeCmsVersion(b) == Decode(b, AsCmsVersion)

\* DigestAlgorithmIdentifiers ::= SET OF AlgorithmIdentifier
AsDigestAlgorithms(a) == AsSetOf(a, AsAlgorithmIdentifier)

DecodeDigestAlgorithms(b) == Decode(b, AsDigestAlgorithms)

\* EncapsulatedContentInfo ::= SEQUENCE {
\*   eContentType OBJECT IDENTIFIER, eContent [0] EXPLICIT ANY OPTIONAL }
AsEncapContentInfo(a) ==
    IF a.tag = TagSequence
    THEN Done(Field(Field(Start(a.value),
            "e_content_type", DecodeOid),
            "e_content", DecodeOptExplicit0))
    ELSE DerErr

DecodeEncapContentInfo(b) == Decode(b, AsEncapContentInfo)

\* certificates [0] IMPLICIT and crls [1] IMPLICIT: read to find where they
\* end when they are there, their content kept raw
DecodeOptCertificates(b) == DecodeOpt(b, {TagContext0}, Val)

DecodeOptCrls(b) == DecodeOpt(b, {TagContext1}, Val)

\* SignerInfos ::= SET OF SignerInfo, each a SEQUENCE; what a SignerInfo
\* holds is kept raw
AsSignerInfo(a) == IF a.tag = TagSequence THEN Val(a) ELSE DerErr

AsSignerInfos(a) == AsSetOf(a, AsSignerInfo)

DecodeSignerInfos(b) == Decode(b, AsSignerInfos)

\* SignedData ::= SEQUENCE { version, digestAlgorithms, encapContentInfo,
\*   certificates [0] IMPLICIT OPTIONAL, crls [1] IMPLICIT OPTIONAL, signerInfos }
AsSignedData(a) ==
    IF a.tag = TagSequence
    THEN Done(Field(Field(Field(Field(Field(Field(Start(a.value),
            "version", DecodeCmsVersion),
            "digest_algorithms", DecodeDigestAlgorithms),
            "encap_content_info", DecodeEncapContentInfo),
            "certificates", DecodeOptCertificates),
            "crls", DecodeOptCrls),
            "signer_infos", DecodeSignerInfos))
    ELSE DerErr

\* [0] EXPLICIT SignedData, which must be there
AsExplicitSignedData(a) ==
    IF a.tag = TagContext0 THEN Finish(Decode(a.value, AsSignedData)) ELSE DerErr

DecodeSignedDataContent(b) == Decode(b, AsExplicitSignedData)

\* The content of the other types, [0] EXPLICIT and optional: an OCTET
\* STRING for Data, a SEQUENCE for EncryptedData, else a value kept raw
ContentFits(ct, c) ==
    IF c.ok /\ c.val # None /\ ct = "Data" /\ c.val[1].tag # TagOctetString THEN DerErr
    ELSE IF c.ok /\ c.val # None /\ ct = "EncryptedData" /\ c.val[1].tag # TagSequence
    THEN DerErr
    ELSE c

DecodeContent(ct, b) ==
    IF ct = "SignedData" THEN DecodeSignedDataContent(b)
    ELSE ContentFits(ct, DecodeOptExplicit0(b))

\* ContentInfo ::= SEQUENCE { contentType ContentType, content [0] EXPLICIT ANY }
ContentInfoOf(ct, c) ==
    IF c.ok /\ c.rest = <<>> THEN Val([content_type |-> ct, content |-> c.val])
    ELSE DerErr

ContentInfoAfterType(ct) ==
    IF ct.ok THEN ContentInfoOf(ct.val, DecodeContent(ct.val, ct.rest)) ELSE DerErr

AsContentInfo(a) ==
    IF a.tag = TagSequence THEN ContentInfoAfterType(DecodeContentType(a.value))
    ELSE DerErr

\* ContentInfo::from_der
ContentInfoFromDer(b) == Finish(Decode(b, AsContentInfo))

----------------------------------------------------------------------------
(* CertificateTrustList::from_der                                          *)

CtlErrorDer == [kind |-> "Der"]

\* CtlErrorContentType carrying the type that was expected
CtlErrorContentTypeExpected(b) ==
    [kind |-> "ContentType", content_type |-> "SignedData"]

\* CtlError::ContentType(body.content_type())
CtlErrorContentType(b) == [kind |-> "ContentType", content_type |-> b.content_type]

\* CtlErrorContent carrying the identifier that was expected
CtlErrorContentExpected(sd) == [kind |-> "Content", oid |-> MS_CERT_TRUST_LIST_OID]

\* CtlError::Content(signed_data.encap_content_info.e_content_type)
CtlErrorContent(sd) ==
    [kind |-> "Content", oid |-> sd.encap_content_info.e_content_type]

CtlErrorMissingSignedDataContent == [kind |-> "MissingSignedDataContent"]

\* match body { ContentInfo::SignedData(signed_data) => .., _ => return Err(..) }
IsSignedData(b) == b.content_type = "SignedData"

\* InnerTypeMismatch with the content looked at first: a SignedData without
\* content goes on to the missing-content check
InnerTypeMismatchIfPresent(sd) ==
    /\ sd.encap_content_info.e_content # None
    /\ sd.encap_content_info.e_content_type # MS_CERT_TRUST_LIST_OID

\* signed_data.encap_content_info.e_content_type != MS_CERT_TRUST_LIST_OID
InnerTypeMismatch(sd) ==
    sd.encap_content_info.e_content_type # MS_CERT_TRUST_LIST_OID

\* let Some(content) = signed_data.encap_content_info.e_content else { .. }
ContentMissing(sd) == sd.encap_content_info.e_content = None

\* Ok(content.decode_as()?)
PayloadResult(r) == IF r.ok THEN [kind |-> "Ok", ctl |-> r.val] ELSE CtlErrorDer

DecodePayload(sd) == PayloadResult(AsCtl(sd.encap_content_info.e_content[1]))

\* from_der after ContentInfo::from_der gave b
FromBody(b) ==
    IF ~b.ok THEN CtlErrorDer
    ELSE IF ~IsSignedData(b.val) THEN CtlErrorContentType(b.val)
    ELSE IF InnerTypeMismatch(b.val.content) THEN CtlErrorContent(b.val.content)
    ELSE IF ContentMissing(b.val.content) THEN CtlErrorMissingSignedDataContent
    ELSE DecodePayload(b.val.content)

\* The whole of from_der on the bytes of a stream
from_der(bytes) == FromBody(ContentInfoFromDer(bytes))

----------------------------------------------------------------------------
(* TrustedSubject::extended_key_usages                                     *)

\* self.attributes.iter().flat_map(|attrs| attrs.iter())
AttributesOf(s) == IF s.attributes = None THEN <<>> ELSE s.attributes[1]

\* IsMetaEkuAttribute without the comparison: every attribute passes
IsAnyAttribute(a) == a.oid = a.oid

\* .filter(|attr| attr.oid == MS_CERT_PROP_ID_METAEKUS_OID)
IsMetaEkuAttribute(a) == a.oid = MS_CERT_PROP_ID_METAEKUS_OID

\* .flat_map(|attr| attr.values.iter())
AttributeValues(a) == a.values

MetaEkuValues(s) ==
    FlatMap(SelectSeq(AttributesOf(s), IsMetaEkuAttribute), AttributeValues)

\* .map(|o| MetaEku::from_der(o.as_bytes())) on the Result of decode_as
MapMetaEku(o) == IF o.ok THEN Val(MetaEkuFromDer(o.val)) ELSE DerErr

\* A Result under flat_map: it iterates as its Ok value, and as nothing
\* when it is an Err
ResultIter(r) == IF r.ok THEN <<r.val>> ELSE <<>>

\* |value| value.decode_as::<OctetStringRef>().map(..), flattened
ValueItems(v) == ResultIter(MapMetaEku(AsOctetString(v)))

\* FlattenOk as Iterator::flatten would do it: an Err gives nothing
FlattenDroppingErr(r) ==
    IF r.ok THEN [i \in 1..Len(r.val) |-> Val(r.val[i])] ELSE <<>>

\* .flatten_ok(): Ok(list) gives Ok(x) for every x of it, Err(e) gives Err(e)
FlattenOk(r) ==
    IF r.ok THEN [i \in 1..Len(r.val) |-> Val(r.val[i])] ELSE <<DerErr>>

extended_key_usages(s) == FlatMap(FlatMap(MetaEkuValues(s), ValueItems), FlattenOk)

----------------------------------------------------------------------------
(* The subjects the model iterates                                         *)

\* Byte strings in the order of a SET OF: by the first octet that differs
BytesLess(a, b) ==
    \E i \in 1..(Len(a) + 1) :
        /\ \A j \in 1..(i - 1) : j <= Len(b) /\ a[j] = b[j]
        /\ i <= Len(b)
        /\ (i > Len(a) \/ a[i] < b[i])

\* An attribute value wrapping the MetaEku of the OIDs given
WrapMetaEku(os) == [tag |-> TagOctetString, value |-> EncodeOidSeq(os)]

\* The values of the model, in the order of their encodings: an INTEGER (no
\* wrapper), an empty MetaEku, a wrapper around a cut-off SEQUENCE, and two
\* MetaEkus that share 1.3.6.1.5.5.7.3.1
ValuePool ==
    << [tag |-> TagInteger, value |-> <<5>>],
       WrapMetaEku(<<>>),
       [tag |-> TagOctetString, value |-> <<TagSequence, 5, TagOid>>],
       WrapMetaEku(<<KpOid(1)>>),
       WrapMetaEku(<<KpOid(2), KpOid(4), KpOid(1)>>) >>

\* The strictly increasing index lists of length 1 .. n into a pool of m
Increasing(m, n) ==
    {q \in UNION {[1..k -> 1..m] : k \in 1..n} :
        \A i \in 1..(Len(q) - 1) : q[i] < q[i + 1]}

\* 1.3.6.1.4.1.311.10.11.11, an attribute that lists no purposes
OtherAttributeOid == <<43, 6, 1, 4, 1, 130, 55, 10, 11, 11>>

AttributePool ==
    {[oid |-> MS_CERT_PROP_ID_METAEKUS_OID,
      values |-> [i \in 1..Len(q) |-> ValuePool[q[i]]]] :
        q \in Increasing(Len(ValuePool), MaxValues)}
    \cup {[oid |-> OtherAttributeOid, values |-> <<ValuePool[4]>>]}

\* Attributes as a decoded SET OF holds them: distinct, in encoding order
AttributeLists ==
    {<<>>} \cup
    {as \in UNION {[1..k -> AttributePool] : k \in 1..MaxAttrs} :
        \A i \in 1..(Len(as) - 1) :
            BytesLess(EncodeAttribute(as[i]), EncodeAttribute(as[i + 1]))}

SubjectIdentifier == <<170, 187, 204>>

Subjects ==
    {[identifier |-> SubjectIdentifier, attributes |-> None]}
    \cup {[identifier |-> SubjectIdentifier, attributes |-> Some(as)] :
            as \in AttributeLists}

----------------------------------------------------------------------------
(* The parts of the state a specification leaves alone                     *)

DerIdle ==
    /\ source = <<>> /\ cut = 0 /\ dpc = "idle" /\ der = <<>>
    /\ body = DerErr /\ steps = <<>> /\ dresult = [kind |-> "None"]

EkuIdle ==
    /\ subject = [identifier |-> <<>>, attributes |-> None]
    /\ epc = "idle" /\ pending = <<>> /\ yielded = <<>>

RtIdle ==
    /\ ctl = <<>> /\ rpc = "idle" /\ encoded = <<>> /\ decoded = DerErr

FetchIdle ==
    /\ fargs = <<>> /\ fpc = "idle" /\ fctl = <<>> /\ created = FALSE
    /\ entries = <<>> /\ purposes = {} /\ idx = 0
    /\ requested = <<>> /\ skipped = {} /\ output = <<>> /\ ferror = ""

DumpIdle ==
    /\ dumpArgs = <<>> /\ dumpPc = "idle" /\ dumpEntries = <<>> /\ dumpIdx = 0
    /\ dumpOut = <<>> /\ dumpErr = ""

----------------------------------------------------------------------------
(* One iteration of extended_key_usages by a consumer                      *)

EkuInit ==
    /\ subject \in Subjects
    /\ epc = "new"
    /\ pending = <<>>
    /\ yielded = <<>>

\* subject.extended_key_usages(): the iterator, holding what it is to yield
EkuCall ==
    /\ epc = "new"
    /\ pending' = extended_key_usages(subject)
    /\ epc' = "iterating"
    /\ UNCHANGED <<subject, yielded>>

\* Iterator::next returning Some(element)
EkuNext ==
    /\ epc = "iterating"
    /\ pending # <<>>
    /\ yielded' = Append(yielded, Head(pending))
    /\ pending' = Tail(pending)
    /\ UNCHANGED <<subject, epc>>

\* Iterator::next returning None
EkuEnd ==
    /\ epc = "iterating"
    /\ pending = <<>>
    /\ epc' = "done"
    /\ UNCHANGED <<subject, pending, yielded>>

InitEku == EkuInit /\ DerIdle /\ RtIdle /\ FetchIdle /\ DumpIdle

NextEku ==
    \/ EkuCall /\ UNCHANGED <<derVars, rtVars, fetchVars, dumpVars>>
    \/ EkuNext /\ UNCHANGED <<derVars, rtVars, fetchVars, dumpVars>>
    \/ EkuEnd /\ UNCHANGED <<derVars, rtVars, fetchVars, dumpVars>>

SpecEku == InitEku /\ [][NextEku]_vars

----------------------------------------------------------------------------
(* The documents the model hands to from_der                               *)

\* 1.3.14.3.2.26, SHA-1
Sha1Oid == <<43, 14, 3, 2, 26>>

UtcTime2023 ==
    [kind |-> "utc", year |-> 2023, month |-> 1, day |-> 2,
     hour |-> 3, minute |-> 4, second |-> 5]

UtcTime1999 ==
    [kind |-> "utc", year |-> 1999, month |-> 12, day |-> 31,
     hour |-> 23, minute |-> 59, second |-> 59]

GeneralizedTime2050 ==
    [kind |-> "general", year |-> 2050, month |-> 2, day |-> 28,
     hour |-> 0, minute |-> 0, second |-> 0]

\* A list with the trusted subjects given and every other optional field absent
CtlOf(subs) ==
    [version |-> CtlVersionV1, subject_usage |-> <<KpOid(1)>>,
     list_identifier |-> None, sequence_number |-> None,
     this_update |-> UtcTime2023, next_update |-> None,
     subject_algorithm |-> [oid |-> Sha1Oid, parameters |-> None],
     trusted_subjects |-> subs, ctl_extensions |-> None]

\* Subjects without attributes, the n-th with the identifier aa bb n
PlainSubject(n) == [identifier |-> <<170, 187, n>>, attributes |-> None]

PlainSubjects(k) == [n \in 1..k |-> PlainSubject(n)]

\* The payloads of the model: the lists of 0 .. MaxSubjects subjects and the
\* list without the field, a list written with its version, a SEQUENCE with
\* nothing in it, a SEQUENCE that is no list, and a value that is no SEQUENCE
ValidPayloads ==
    {[tag |-> TagSequence, value |-> EncodeCtlFields(CtlOf(None))]}
    \cup {[tag |-> TagSequence, value |-> EncodeCtlFields(CtlOf(Some(PlainSubjects(k))))] :
            k \in 0..MaxSubjects}
    \cup {[tag |-> TagSequence,
           value |-> EncodeEnumerated(CtlVersionV1) \o EncodeCtlFields(CtlOf(None))]}

EmptyPayload == [tag |-> TagSequence, value |-> <<>>]

BadPayloads ==
    {EmptyPayload, [tag |-> TagSequence, value |-> <<TagNull, 0>>],
     [tag |-> TagOctetString, value |-> <<1>>]}

Contents == {None} \cup {Some(p) : p \in ValidPayloads \cup BadPayloads}

InnerTypes == {MS_CERT_TRUST_LIST_OID, Pkcs7Oid(1), KpOid(1)}

SignerSets == {<<>>, <<[tag |-> TagSequence, value |-> <<>>]>>}

EncodeEncapContentInfo(ect, content) ==
    EncodeTLV(TagSequence, EncodeOid(ect) \o EncodeOpt(content, EncodeExplicit0))

\* A SignedData of version 1 with no digest algorithm, certificate or crl
EncodeSignedData(ect, content, signers) ==
    EncodeTLV(TagSequence,
        EncodeEnumerated(1)
        \o EncodeTLV(TagSet, <<>>)
        \o EncodeEncapContentInfo(ect, content)
        \o EncodeTLV(TagSet, FlatMap(signers, EncodeAny)))

\* ContentInfo { SignedData, [0] { SignedData } }
SignedDocument(ect, content, signers) ==
    EncodeTLV(TagSequence,
        EncodeOid(Pkcs7Oid(2))
        \o EncodeTLV(TagContext0, EncodeSignedData(ect, content, signers)))

\* ContentInfo of another content type, with or without content
OtherDocument(ct, content) ==
    EncodeTLV(TagSequence, EncodeOid(ct) \o EncodeOpt(content, EncodeExplicit0))

\* Data, EnvelopedData and DigestedData
OtherTypes == {1, 3, 5}

OtherContents == {None, Some([tag |-> TagOctetString, value |-> <<1>>])}

Documents ==
    {SignedDocument(ect, c, sg) : ect \in InnerTypes, c \in Contents, sg \in SignerSets}
    \cup {OtherDocument(Pkcs7Oid(n), c) : n \in OtherTypes, c \in OtherContents}
    \cup {OtherDocument(KpOid(1), None)}

----------------------------------------------------------------------------
(* One call of CertificateTrustList::from_der.  The stream holds the first *)
(* `cut` bytes of a document: the whole of it, or a document cut short.    *)

DerInit ==
    /\ source \in Documents
    /\ cut \in 1..Len(source)
    /\ dpc = "start"
    /\ der = <<>>
    /\ body = DerErr
    /\ steps = <<>>
    /\ dresult = [kind |-> "None"]

Return(r) == dresult' = r /\ dpc' = "done"

\* source.read_to_end(&mut der)?
ReadToEnd ==
    /\ dpc = "start"
    /\ der' = SubSeq(source, 1, cut)
    /\ steps' = Append(steps, "read_to_end")
    /\ dpc' = "content_info"
    /\ UNCHANGED <<source, cut, body, dresult>>

\* let body = ContentInfo::from_der(&der)?
ParseContentInfo ==
    /\ dpc = "content_info"
    /\ body' = ContentInfoFromDer(der)
    /\ steps' = Append(steps, "content_info")
    /\ IF body'.ok THEN dpc' = "match" /\ UNCHANGED dresult
       ELSE Return(CtlErrorDer)
    /\ UNCHANGED <<source, cut, der>>

\* let signed_data = match body { .. }
MatchSignedData ==
    /\ dpc = "match"
    /\ steps' = Append(steps, "match")
    /\ IF IsSignedData(body.val) THEN dpc' = "inner_type" /\ UNCHANGED dresult
       ELSE Return(CtlErrorContentType(body.val))
    /\ UNCHANGED <<source, cut, der, body>>

\* if signed_data.encap_content_info.e_content_type != MS_CERT_TRUST_LIST_OID
CheckInnerType ==
    /\ dpc = "inner_type"
    /\ steps' = Append(steps, "inner_type")
    /\ IF InnerTypeMismatch(body.val.content) THEN Return(CtlErrorContent(body.val.content))
       ELSE dpc' = "content" /\ UNCHANGED dresult
    /\ UNCHANGED <<source, cut, der, body>>

\* let Some(content) = signed_data.encap_content_info.e_content else { .. }
CheckContent ==
    /\ dpc = "content"
    /\ steps' = Append(steps, "content")
    /\ IF ContentMissing(body.val.content) THEN Return(CtlErrorMissingSignedDataContent)
       ELSE dpc' = "payload" /\ UNCHANGED dresult
    /\ UNCHANGED <<source, cut, der, body>>

\* Ok(content.decode_as()?)
DecodeCtlPayload ==
    /\ dpc = "payload"
    /\ steps' = Append(steps, "payload")
    /\ Return(DecodePayload(body.val.content))
    /\ UNCHANGED <<source, cut, der, body>>

InitDer == DerInit /\ EkuIdle /\ RtIdle /\ FetchIdle /\ DumpIdle

NextDer ==
    \/ ReadToEnd /\ UNCHANGED <<ekuVars, rtVars, fetchVars, dumpVars>>
    \/ ParseContentInfo /\ UNCHANGED <<ekuVars, rtVars, fetchVars, dumpVars>>
    \/ MatchSignedData /\ UNCHANGED <<ekuVars, rtVars, fetchVars, dumpVars>>
    \/ CheckInnerType /\ UNCHANGED <<ekuVars, rtVars, fetchVars, dumpVars>>
    \/ CheckContent /\ UNCHANGED <<ekuVars, rtVars, fetchVars, dumpVars>>
    \/ DecodeCtlPayload /\ UNCHANGED <<ekuVars, rtVars, fetchVars, dumpVars>>

SpecDer == InitDer /\ [][NextDer]_vars

----------------------------------------------------------------------------
(* Claims about from_der, under SpecDer                                    *)

\* The stream held the whole document d and from_der has returned
ReturnedOn(d) == dpc = "done" /\ der = d

\* C4, as stated: a SignedData whose encapContentInfo has no eContent fails
\* with the missing-content error whatever its encapContentType is.
C4_MissingWhateverType ==
    \A ect \in InnerTypes, sg \in SignerSets :
        ReturnedOn(SignedDocument(ect, None, sg))
            => dresult = CtlErrorMissingSignedDataContent

\* C4, amended: without eContent, from_der fails with the missing-content
\* error when encapContentType is the CTL identifier and with the inner
\* content-type error carrying the observed type otherwise (the type is
\* checked first); the missing-content error differs from the outcome for
\* a payload that is present and empty, a DER error.
C4_MissingAfterTypeCheck ==
    \A ect \in InnerTypes, sg \in SignerSets :
        /\ ReturnedOn(SignedDocument(ect, None, sg)) =>
              /\ ect = MS_CERT_TRUST_LIST_OID
                    => dresult = CtlErrorMissingSignedDataContent
              /\ ect # MS_CERT_TRUST_LIST_OID
                    => dresult = [kind |-> "Content", oid |-> ect]
        /\ ReturnedOn(SignedDocument(MS_CERT_TRUST_LIST_OID, Some(EmptyPayload), sg)) =>
              /\ dresult = CtlErrorDer
              /\ dresult # CtlErrorMissingSignedDataContent

C4_Witness ==
    /\ ReturnedOn(SignedDocument(MS_CERT_TRUST_LIST_OID, None, <<>>))
    /\ dresult = CtlErrorMissingSignedDataContent
    /\ steps = <<"read_to_end", "content_info", "match", "inner_type", "content">>

C6_InnerTypeMismatch ==
    \A ect \in InnerTypes, c \in Contents, sg \in SignerSets :
        ReturnedOn(SignedDocument(ect, c, sg)) =>
            /\ ect # MS_CERT_TRUST_LIST_OID =>
                  /\ dresult = [kind |-> "Content", oid |-> ect]
                  /\ \A i \in 1..Len(steps) : steps[i] # "payload"
            /\ (ect = MS_CERT_TRUST_LIST_OID /\ c # None) =>
                  /\ steps[Len(steps)] = "payload"
                  /\ dresult = IF CtlFromDer(EncodeAny(c[1])).ok
                               THEN [kind |-> "Ok", ctl |-> CtlFromDer(EncodeAny(c[1])).val]
                               ELSE CtlErrorDer

C6_Witness ==
    /\ ReturnedOn(SignedDocument(KpOid(1), Some([tag |-> TagSequence, value |-> <<TagNull, 0>>]), <<>>))
    /\ dresult = [kind |-> "Content", oid |-> KpOid(1)]

\* C8: when from_der decodes a document, from_der on a proper non-empty
\* prefix of it returns a DER error and never a CertificateTrustList.
C8_TruncationSafety ==
    (dpc = "done" /\ cut < Len(source) /\ from_der(source).kind = "Ok")
        => dresult = CtlErrorDer

C8_Witness ==
    /\ dpc = "done"
    /\ from_der(source).kind = "Ok"
    /\ from_der(source).ctl.trusted_subjects = Some(PlainSubjects(MaxSubjects))
    /\ cut = Len(source) - 2
    /\ dresult = CtlErrorDer

----------------------------------------------------------------------------
(* Claims about extended_key_usages, under SpecEku                         *)

\* The attributes of the subject that list purposes, by their positions
MetaPositions ==
    {a \in 1..Len(AttributesOf(subject)) :
        AttributesOf(subject)[a].oid = MS_CERT_PROP_ID_METAEKUS_OID}

ValueAt(a, v) == AttributesOf(subject)[a].values[v]

ValuePositions ==
    {<<a, v>> : a \in MetaPositions, v \in 1..MaxValues + 1} \cap
    {p \in (1..MaxAttrs + 1) \X (1..MaxValues + 1) :
        /\ p[1] <= Len(AttributesOf(subject))
        /\ p[2] <= Len(AttributesOf(subject)[p[1]].values)}

\* The value fails at the first layer (no OCTET STRING) or at the second
\* (its bytes are no MetaEku)
FailsToDecode(x) == x.tag # TagOctetString \/ ~MetaEkuFromDer(x.value).ok

ErrorElements == {i \in 1..Len(yielded) : ~yielded[i].ok}

\* C3, as stated: every value of a meta-EKU attribute that fails to decode
\* at either layer has an error element in the sequence; none is skipped.
C3_EveryFailureSurfaces ==
    epc = "done" =>
        Cardinality(ErrorElements)
            = Cardinality({p \in ValuePositions : FailsToDecode(ValueAt(p[1], p[2]))})

\* The places <<attribute, value, index>> of the OIDs, when every value decodes
OidPlaces ==
    {<<p[1], p[2], k>> : p \in ValuePositions, k \in 1..3} \cap
    {t \in (1..MaxAttrs + 1) \X (1..MaxValues + 1) \X (1..3) :
        /\ <<t[1], t[2]>> \in ValuePositions
        /\ t[3] <= Len(MetaEkuFromDer(ValueAt(t[1], t[2]).value).val)}

PlaceBefore(t, u) ==
    \/ t[1] < u[1]
    \/ t[1] = u[1] /\ t[2] < u[2]
    \/ t[1] = u[1] /\ t[2] = u[2] /\ t[3] < u[3]

\* C7: when every meta-EKU value decodes, the sequence is the OIDs of the
\* values of the attributes with the oid 1.3.6.1.4.1.311.10.11.9, by
\* attribute, then value, then place in the MetaEku; no other attribute
\* adds to it, repeated OIDs stay, and no attributes give the empty sequence.
C7_EkuExtraction ==
    (epc = "done" /\ \A p \in ValuePositions : ~FailsToDecode(ValueAt(p[1], p[2]))) =>
        /\ Len(yielded) = Cardinality(OidPlaces)
        /\ \A t \in OidPlaces :
              yielded[Cardinality({u \in OidPlaces : PlaceBefore(u, t)}) + 1]
                  = Val(MetaEkuFromDer(ValueAt(t[1], t[2]).value).val[t[3]])

\* An attribute of another oid, then one whose two values share an OID
C7_Witness ==
    /\ epc = "done"
    /\ Len(AttributesOf(subject)) = 2
    /\ AttributesOf(subject)[1].oid = OtherAttributeOid
    /\ AttributesOf(subject)[2].values = <<ValuePool[4], ValuePool[5]>>
    /\ yielded = <<Val(KpOid(1)), Val(KpOid(2)), Val(KpOid(4)), Val(KpOid(1))>>

----------------------------------------------------------------------------
(* A CertificateTrustList value written and read back                      *)

\* The subjects of the values: without attributes, with an empty set of
\* them, and with the meta-EKU attribute of the test vector
RtSubjects ==
    {PlainSubject(1),
     [identifier |-> SubjectIdentifier, attributes |-> Some(<<>>)],
     [identifier |-> <<>>,
      attributes |-> Some(<<[oid |-> MS_CERT_PROP_ID_METAEKUS_OID,
                             values |-> <<ValuePool[5]>>]>>)]}

RtSubjectLists == UNION {[1..k -> RtSubjects] : k \in 0..MaxSubjects}

\* The values: every field of the struct is public, so each combination of
\* field values is one a caller can build
CtlValues ==
    [version : {CtlVersionV1},
     subject_usage : {<<>>, <<KpOid(1)>>},
     list_identifier : {None, Some(<<7>>)},
     sequence_number : {None, Some(<<0>>), Some(<<200>>)},
     this_update : {UtcTime2023, UtcTime1999, GeneralizedTime2050},
     next_update : {None, Some(GeneralizedTime2050)},
     subject_algorithm : {[oid |-> Sha1Oid, parameters |-> None],
                          [oid |-> Sha1Oid,
                           parameters |-> Some([tag |-> TagNull, value |-> <<>>])]},
     trusted_subjects : {None} \cup {Some(l) : l \in RtSubjectLists},
     ctl_extensions : {None, Some([tag |-> TagSequence, value |-> <<>>])}]

RtInit ==
    /\ ctl \in CtlValues
    /\ rpc = "new"
    /\ encoded = <<>>
    /\ decoded = DerErr

\* Encode::to_der of the derived Sequence
RtEncode ==
    /\ rpc = "new"
    /\ encoded' = EncodeCtl(ctl)
    /\ rpc' = "encoded"
    /\ UNCHANGED <<ctl, decoded>>

\* Another writer's encoding of the same value, its version written out
RtEncodeExplicit ==
    /\ rpc = "new"
    /\ encoded' = EncodeTLV(TagSequence,
                            EncodeEnumerated(ctl.version) \o EncodeCtlFields(ctl))
    /\ rpc' = "explicit"
    /\ UNCHANGED <<ctl, decoded>>

\* Decode::from_der of the derived Sequence
RtDecode ==
    /\ rpc \in {"encoded", "explicit"}
    /\ decoded' = CtlFromDer(encoded)
    /\ rpc' = "done"
    /\ UNCHANGED <<ctl, encoded>>

InitRt == RtInit /\ DerIdle /\ EkuIdle /\ FetchIdle /\ DumpIdle

NextRt ==
    \/ RtEncode /\ UNCHANGED <<derVars, ekuVars, fetchVars, dumpVars>>
    \/ RtEncodeExplicit /\ UNCHANGED <<derVars, ekuVars, fetchVars, dumpVars>>
    \/ RtDecode /\ UNCHANGED <<derVars, ekuVars, fetchVars, dumpVars>>

SpecRt == InitRt /\ [][NextRt]_vars

----------------------------------------------------------------------------
(* Claims about the round trip, under SpecRt                               *)

TimeTag(t) == IF t.kind = "utc" THEN TagUtcTime ELSE TagGeneralizedTime

TagIfPresent(o, tag) == IF o = None THEN <<>> ELSE <<tag>>

\* The tags of the fields a value holds, the version not among them
PresentFieldTags(v) ==
    <<TagSequence>>
    \o TagIfPresent(v.list_identifier, TagOctetString)
    \o TagIfPresent(v.sequence_number, TagInteger)
    \o <<TimeTag(v.this_update)>>
    \o (IF v.next_update = None THEN <<>> ELSE <<TimeTag(v.next_update[1])>>)
    \o <<TagSequence>>
    \o TagIfPresent(v.trusted_subjects, TagSequence)
    \o TagIfPresent(v.ctl_extensions, TagContext0)

\* The tags of the values inside the outermost value of b
InnerTags(b) ==
    [i \in 1..Len(Elements(ReadTLV(b).val.value).val) |->
        Elements(ReadTLV(b).val.value).val[i].tag]

\* C10: a value that was encoded and decoded comes back equal, whether its
\* version was left out or written; the program's encoding holds the fields
\* that are present and nothing else: no version (it is the default V1), no
\* absent listIdentifier, sequenceNumber, nextUpdate, trustedSubjects or
\* extensions.
C10_RoundTrip ==
    /\ rpc = "done" => decoded = Val(ctl)
    /\ rpc = "encoded" =>
          /\ ReadTLV(encoded).ok /\ ReadTLV(encoded).rest = <<>>
          /\ InnerTags(encoded) = PresentFieldTags(ctl)

\* A value with every optional field absent came back from the program's
\* own encoding, which starts with subjectUsage
C10_Witness ==
    /\ rpc = "done"
    /\ decoded = Val(ctl)
    /\ ctl.list_identifier = None /\ ctl.sequence_number = None
    /\ ctl.next_update = None /\ ctl.trusted_subjects = None
    /\ ctl.ctl_extensions = None
    /\ InnerTags(encoded) = <<TagSequence, TimeTag(ctl.this_update), TagSequence>>

----------------------------------------------------------------------------
(* ctltool: load_ctl                                                       *)

\* Iterator::collect::<Result<HashSet<_>, _>>: the first Err, or the set of
\* the Ok values
CollectSet(items) ==
    IF \E i \in 1..Len(items) : ~items[i].ok THEN DerErr
    ELSE Val({items[i].val : i \in 1..Len(items)})

\* .context("failed to load CTL from PKCS#7") on the Result of from_der
LoadContext(r) == IF r.kind = "Ok" THEN r ELSE [kind |-> "Load", source |-> r]

\* cabinet.read_file("authroot.stl"), then from_der of the member
ReadMember(ms) ==
    IF ms = <<>> THEN [kind |-> "Extract"] ELSE LoadContext(from_der(ms[1].data))

IsAuthroot(m) == m.name = "authroot.stl"

\* cab::Cabinet::new(file): a file that is a cabinet has its members
LoadCabinet(c) ==
    IF c = None THEN [kind |-> "Cabinet"] ELSE ReadMember(SelectSeq(c[1], IsAuthroot))

\* A path without an extension has the extension ""
load_ctl(input) ==
    IF ~input.present THEN [kind |-> "Io"]
    ELSE IF input.ext \in {"der", "stl"} THEN LoadContext(from_der(input.bytes))
    ELSE IF input.ext = "cab" THEN LoadCabinet(input.cabinet)
    ELSE IF input.ext = "" THEN [kind |-> "NoExtension"]
    ELSE [kind |-> "Extension", ext |-> input.ext]

----------------------------------------------------------------------------
(* ctltool: fetch                                                          *)

\* One arc in base 128; the arcs of the model are below 16384
Base128(n) == IF n < 128 THEN <<n>> ELSE <<128 + (n \div 128), n % 128>>

ValidArcs(a) ==
    /\ Len(a) >= 3
    /\ a[1] <= 2
    /\ (a[1] < 2 => a[2] < 40)
    /\ \A i \in 1..Len(a) : a[i] < 16384

\* ObjectIdentifier::new(p), p given as the arcs between its dots
ObjectIdentifierNew(a) ==
    IF ValidArcs(a) THEN Val(<<40 * a[1] + a[2]>> \o FlatMap(Drop(a, 2), Base128))
    ELSE DerErr

\* args.purposes.iter().map(|p| ObjectIdentifier::new(p)).collect()
ParsePurposes(ps) == CollectSet([i \in 1..Len(ps) |-> ObjectIdentifierNew(ps[i])])

\* ctl.trusted_subjects.iter().flatten().collect()
EntriesOf(c) == IF c.trusted_subjects = None THEN <<>> ELSE c.trusted_subjects[1]

\* SkipsEntry for a filter that keeps what intersects, with no case for
\* the empty set of purposes
SkipsDisjoint(ekus, ps) == ekus \cap ps = {}

\* !purposes.is_empty() && !ekus.intersection(&purposes)...is_empty()
SkipsEntry(ekus, ps) == ps # {} /\ ekus \cap ps # {}

HexDigits ==
    <<"0", "1", "2", "3", "4", "5", "6", "7", "8", "9", "a", "b", "c", "d", "e", "f">>

HexByte(x) == <<HexDigits[(x \div 16) + 1], HexDigits[(x % 16) + 1]>>

\* hex::encode
hex_encode(b) == FlatMap(b, HexByte)

\* format!("http://www.download.windowsupdate.com/.../en/{id}.crt")
Url(id) ==
    [prefix |-> "http://www.download.windowsupdate.com/msdownload/update/v3/static/trustedr/en/",
     id |-> id, suffix |-> ".crt"]

----------------------------------------------------------------------------
(* The arguments the model hands to fetch                                  *)

MaxPurposes == 2

\* 1.3.6.1.5.5.7.3.1 and 1.3.6.1.5.5.7.3.3 as the arcs of their strings, and
\* a string whose first arc no identifier has
PurposePool == {<<1, 3, 6, 1, 5, 5, 7, 3, 1>>, <<1, 3, 6, 1, 5, 5, 7, 3, 3>>, <<3, 1, 2>>}

PurposeLists == UNION {[1..k -> PurposePool] : k \in 0..MaxPurposes}

SubjectWith(n, v) ==
    [identifier |-> <<170, 187, n>>,
     attributes |-> Some(<<[oid |-> MS_CERT_PROP_ID_METAEKUS_OID, values |-> <<v>>]>>)]

\* Subjects with no purposes, with one, with three, and with a value that
\* is no MetaEku
FetchSubjects ==
    {PlainSubject(1), SubjectWith(2, ValuePool[4]), SubjectWith(3, ValuePool[5]),
     SubjectWith(4, ValuePool[3])}

FetchLists == UNION {[1..k -> FetchSubjects] : k \in 0..MaxSubjects}

CtlDocument(c) ==
    SignedDocument(MS_CERT_TRUST_LIST_OID,
                   Some([tag |-> TagSequence, value |-> EncodeCtlFields(c)]), <<>>)

PlainFile(e, d) == [present |-> TRUE, ext |-> e, bytes |-> d, cabinet |-> None]

\* The first bytes of a cabinet file: "MSCF"
CabinetFile(e, ms) ==
    [present |-> TRUE, ext |-> e, bytes |-> <<77, 83, 67, 70>>, cabinet |-> Some(ms)]

FetchInputs ==
    {PlainFile("stl", CtlDocument(CtlOf(Some(l)))) : l \in FetchLists}
    \cup {PlainFile(e, CtlDocument(CtlOf(None))) : e \in {"stl", "der", "cab", "txt", ""}}
    \cup {PlainFile("stl", OtherDocument(Pkcs7Oid(1), None))}
    \cup {CabinetFile(e, <<[name |-> n, data |-> CtlDocument(CtlOf(Some(PlainSubjects(1))))]>>) :
            e \in {"cab", "stl"}, n \in {"authroot.stl", "disallowedcert.stl"}}
    \cup {[present |-> FALSE, ext |-> "stl", bytes |-> <<>>, cabinet |-> None]}

FetchArgs == [input : FetchInputs, purposes : PurposeLists, output_exists : BOOLEAN]

\* What the server may do with a request: the certificate, no answer, a
\* status that is no success, and a body that is no certificate
Responses == {"ok", "Transport", "Status", "X509"}

----------------------------------------------------------------------------
(* One run of fetch                                                        *)

FetchInit ==
    /\ fargs \in FetchArgs
    /\ fpc = "start"
    /\ fctl = <<>>
    /\ created = FALSE
    /\ entries = <<>>
    /\ purposes = {}
    /\ idx = 0
    /\ requested = <<>>
    /\ skipped = {}
    /\ output = <<>>
    /\ ferror = ""

Fail(e) == ferror' = e /\ fpc' = "done"

\* let ctl = load_ctl(args.input)?
LoadCtl ==
    /\ fpc = "start"
    /\ fctl' = load_ctl(fargs.input)
    /\ IF fctl'.kind = "Ok" THEN fpc' = "open" /\ UNCHANGED ferror
       ELSE Fail(fctl'.kind)
    /\ UNCHANGED <<fargs, created, entries, purposes, idx, requested, skipped, output>>

\* OpenOutput without create_new: a file that is there is written over
OpenOutputOver ==
    /\ fpc = "open"
    /\ created' = TRUE
    /\ fpc' = "purposes"
    /\ UNCHANGED <<fargs, fctl, entries, purposes, idx, requested, skipped, output, ferror>>

\* File::options().write(true).create_new(true).open(&args.output)...?
OpenOutput ==
    /\ fpc = "open"
    /\ IF fargs.output_exists THEN Fail("OutputExists") /\ UNCHANGED created
       ELSE created' = TRUE /\ fpc' = "purposes" /\ UNCHANGED ferror
    /\ UNCHANGED <<fargs, fctl, entries, purposes, idx, requested, skipped, output>>

Parsed(ps) ==
    IF ps.ok
    THEN /\ purposes' = ps.val
         /\ entries' = EntriesOf(fctl.ctl)
         /\ idx' = 1
         /\ fpc' = "loop"
         /\ UNCHANGED ferror
    ELSE Fail("Purpose") /\ UNCHANGED <<purposes, entries, idx>>

\* let purposes: HashSet<_> = ...?; let entries = ...
CollectPurposes ==
    /\ fpc = "purposes"
    /\ Parsed(ParsePurposes(fargs.purposes))
    /\ UNCHANGED <<fargs, fctl, created, requested, skipped, output>>

Filtered(ekus) ==
    IF ~ekus.ok
    THEN Fail("Eku") /\ UNCHANGED <<idx, requested, skipped>>
    ELSE IF SkipsEntry(ekus.val, purposes)
    THEN /\ skipped' = skipped \cup {idx}
         /\ idx' = idx + 1
         /\ UNCHANGED <<fpc, ferror, requested>>
    ELSE /\ requested' = Append(requested, Url(hex_encode(cert_id(entries[idx]))))
         /\ fpc' = "request"
         /\ UNCHANGED <<idx, ferror, skipped>>

\* The loop body up to reqwest::blocking::get(&url)
NextEntry ==
    /\ fpc = "loop"
    /\ idx <= Len(entries)
    /\ Filtered(CollectSet(extended_key_usages(entries[idx])))
    /\ UNCHANGED <<fargs, fctl, created, entries, purposes, output>>

\* The loop body from the response on: the status, the certificate, the
\* lines written to the output
Respond(r) ==
    /\ fpc = "request"
    /\ IF r = "ok"
       THEN /\ output' = Append(output, requested[Len(requested)])
            /\ idx' = idx + 1
            /\ fpc' = "loop"
            /\ UNCHANGED ferror
       ELSE Fail(r) /\ UNCHANGED <<output, idx>>
    /\ UNCHANGED <<fargs, fctl, created, entries, purposes, requested, skipped>>

\* Ok(()) after the last entry
FetchReturn ==
    /\ fpc = "loop"
    /\ idx > Len(entries)
    /\ fpc' = "done"
    /\ UNCHANGED <<fargs, fctl, created, entries, purposes, idx, requested, skipped,
                   output, ferror>>

InitFetch == FetchInit /\ DerIdle /\ EkuIdle /\ RtIdle /\ DumpIdle

NextFetch ==
    \/ LoadCtl /\ UNCHANGED <<derVars, ekuVars, rtVars, dumpVars>>
    \/ OpenOutput /\ UNCHANGED <<derVars, ekuVars, rtVars, dumpVars>>
    \/ CollectPurposes /\ UNCHANGED <<derVars, ekuVars, rtVars, dumpVars>>
    \/ NextEntry /\ UNCHANGED <<derVars, ekuVars, rtVars, dumpVars>>
    \/ (\E r \in Responses : Respond(r)) /\ UNCHANGED <<derVars, ekuVars, rtVars, dumpVars>>
    \/ FetchReturn /\ UNCHANGED <<derVars, ekuVars, rtVars, dumpVars>>

SpecFetch == InitFetch /\ [][NextFetch]_vars

----------------------------------------------------------------------------
(* Claims about the purpose filter, under SpecFetch                        *)

\* The purposes of an entry whose values all decode
EkuSet(e) ==
    {extended_key_usages(e)[i].val : i \in 1..Len(extended_key_usages(e))}

\* The entries the loop has decided about
Decided == {i \in 1..Len(entries) : i < idx \/ (i = idx /\ fpc = "request")}

\* C1, as stated: with a set of purposes that is not empty, an entry is
\* retrieved if and only if its purposes and the wanted ones have an
\* identifier in common.
C1_InclusiveFilter ==
    purposes # {} =>
        \A i \in Decided : (i \notin skipped) <=> (EkuSet(entries[i]) \cap purposes # {})

AllUrls == [i \in 1..Len(entries) |-> Url(hex_encode(cert_id(entries[i])))]

\* C2: when the caller gives no purposes, no entry is skipped whatever its
\* purposes are, and the requests go out for the entries in the order of
\* the list, for all of them when fetch returns without an error.
C2_NoPurposesSelectsAll ==
    fargs.purposes = <<>> =>
        /\ skipped = {}
        /\ Len(requested) <= Len(entries)
        /\ requested = SubSeq(AllUrls, 1, Len(requested))
        /\ fpc = "loop" => Len(requested) = idx - 1
        /\ fpc = "request" => Len(requested) = idx
        /\ (fpc = "done" /\ ferror = "") => requested = AllUrls

\* fetch returned after two entries, the first with no purposes at all
C2_Witness ==
    /\ fargs.purposes = <<>>
    /\ fpc = "done" /\ ferror = ""
    /\ Len(entries) = 2
    /\ EkuSet(entries[1]) = {}
    /\ EkuSet(entries[2]) = {KpOid(1), KpOid(2), KpOid(4)}
    /\ requested = <<Url(<<"a", "a", "b", "b", "0", "1">>), Url(<<"a", "a", "b", "b", "0", "3">>)>>
    /\ output = requested

----------------------------------------------------------------------------
(* Lists whose INTEGER fields and whose extensions are written in several  *)
(* ways, handed to from_der whole                                          *)

TagBoolean == 1

\* The version: left out, 0, and 0 with one and with two octets too many
VersionEncodings == {<<>>, <<TagInteger, 1, 0>>, <<TagInteger, 2, 0, 0>>,
                     <<TagInteger, 3, 0, 0, 0>>}

\* The sequence number: left out, 5, 5 with an octet too many, 128 (whose
\* sign octet is needed), 0, and 0 with an octet too many
SequenceNumberEncodings ==
    {<<>>, <<TagInteger, 1, 5>>, <<TagInteger, 2, 0, 5>>, <<TagInteger, 2, 0, 128>>,
     <<TagInteger, 1, 0>>, <<TagInteger, 2, 0, 0>>}

\* Extensions with one Extension: 2.5.29.19, critical written as the octet
\* b, and an empty SEQUENCE as its value
ExtensionsWith(b) ==
    [tag |-> TagSequence,
     value |-> EncodeTLV(TagSequence,
                  EncodeOid(<<85, 29, 19>>) \o <<TagBoolean, 1, b>>
                  \o EncodeOctetString(<<TagSequence, 0>>))]

ExtensionChoices == {None} \cup {Some(ExtensionsWith(b)) : b \in {0, 1, 255}}

CanonFields(v, s, e) ==
    v \o EncodeOidSeq(<<KpOid(1)>>) \o s \o EncodeTime(UtcTime2023)
    \o EncodeAlgorithmIdentifier([oid |-> Sha1Oid, parameters |-> None])
    \o EncodeOpt(e, EncodeExplicit0)

CanonDocument(v, s, e) ==
    SignedDocument(MS_CERT_TRUST_LIST_OID,
                   Some([tag |-> TagSequence, value |-> CanonFields(v, s, e)]), <<>>)

CanonDocuments ==
    {CanonDocument(v, s, e) :
        v \in VersionEncodings, s \in SequenceNumberEncodings, e \in ExtensionChoices}

CanonInit ==
    /\ source \in CanonDocuments
    /\ cut = Len(source)
    /\ dpc = "start"
    /\ der = <<>>
    /\ body = DerErr
    /\ steps = <<>>
    /\ dresult = [kind |-> "None"]

InitCanon == CanonInit /\ EkuIdle /\ RtIdle /\ FetchIdle /\ DumpIdle

SpecCanon == InitCanon /\ [][NextDer]_vars

----------------------------------------------------------------------------
(* Claims about encodings that are not canonical, under SpecCanon          *)

\* An INTEGER with a first content octet of 0 that its value does not need
NonMinimal(i) == Len(i) >= 4 /\ i[3] = 0 /\ i[4] < 128

\* C11, as stated: a document whose version or sequenceNumber has a leading
\* zero octet it does not need, or that holds a BOOLEAN whose content octet
\* is 1, fails with the DER error.
C11_NonCanonicalRejected ==
    \A v \in VersionEncodings, s \in SequenceNumberEncodings, e \in ExtensionChoices :
        (/\ NonMinimal(v) \/ NonMinimal(s) \/ e = Some(ExtensionsWith(1))
         /\ ReturnedOn(CanonDocument(v, s, e)))
            => dresult = CtlErrorDer

\* The part of C11 about the INTEGER fields alone
C11_IntegersRejected ==
    \A v \in VersionEncodings, s \in SequenceNumberEncodings, e \in ExtensionChoices :
        ((NonMinimal(v) \/ NonMinimal(s)) /\ ReturnedOn(CanonDocument(v, s, e)))
            => dresult = CtlErrorDer

\* A list with minimal INTEGER fields and the BOOLEAN octet 1 in its
\* extensions was decoded, the extensions kept as they were written
C11_BooleanAccepted ==
    /\ ReturnedOn(CanonDocument(<<>>, <<TagInteger, 2, 0, 128>>, Some(ExtensionsWith(1))))
    /\ dresult.kind = "Ok"
    /\ dresult.ctl.sequence_number = Some(<<128>>)
    /\ dresult.ctl.ctl_extensions = Some(ExtensionsWith(1))

----------------------------------------------------------------------------
(* impl Serialize for TrustedSubject                                       *)

\* Iterator::collect::<Result<Vec<_>, _>>: the first Err, or the Ok values
\* in their order
CollectVec(items) ==
    IF \E i \in 1..Len(items) : ~items[i].ok THEN DerErr
    ELSE Val([i \in 1..Len(items) |-> items[i].val])

\* The arcs after the second, each of one or two octets in base 128
RECURSIVE ArcsFrom(_)
ArcsFrom(b) ==
    IF b = <<>> THEN <<>>
    ELSE IF b[1] >= 128 /\ Len(b) >= 2
    THEN <<(b[1] - 128) * 128 + b[2]>> \o ArcsFrom(Drop(b, 2))
    ELSE <<b[1]>> \o ArcsFrom(Tail(b))

FirstArcs(x) ==
    IF x < 40 THEN <<0, x>> ELSE IF x < 80 THEN <<1, x - 40>> ELSE <<2, x - 80>>

\* ObjectIdentifier::to_string, as the arcs between the dots
OidToString(o) == FirstArcs(o[1]) \o ArcsFrom(Tail(o))

\* The struct written once the EKUs were collected, or the custom error
SerializeWith(ekus, s) ==
    IF ekus.ok
    THEN Val([identifier |-> hex_encode(s.identifier),
              ekus |-> [i \in 1..Len(ekus.val) |-> OidToString(ekus.val[i])]])
    ELSE DerErr

Serialize(s) == SerializeWith(CollectVec(extended_key_usages(s)), s)

----------------------------------------------------------------------------
(* ctltool: dump                                                           *)

DumpInit ==
    /\ dumpArgs \in [input : FetchInputs]
    /\ dumpPc = "start"
    /\ dumpEntries = <<>>
    /\ dumpIdx = 0
    /\ dumpOut = <<>>
    /\ dumpErr = ""

DumpFail(e) == dumpErr' = e /\ dumpPc' = "done"

Loaded(r) ==
    IF r.kind = "Ok"
    THEN /\ dumpEntries' = EntriesOf(r.ctl)
         /\ dumpIdx' = 1
         /\ dumpPc' = "serialize"
         /\ UNCHANGED dumpErr
    ELSE DumpFail(r.kind) /\ UNCHANGED <<dumpEntries, dumpIdx>>

\* let ctl = load_ctl(args.input)?; let entries = ...
DumpLoad ==
    /\ dumpPc = "start"
    /\ Loaded(load_ctl(dumpArgs.input))
    /\ UNCHANGED <<dumpArgs, dumpOut>>

Written(r) ==
    IF r.ok
    THEN /\ dumpOut' = Append(dumpOut, r.val)
         /\ dumpIdx' = dumpIdx + 1
         /\ UNCHANGED <<dumpPc, dumpErr>>
    ELSE DumpFail("Json") /\ UNCHANGED <<dumpOut, dumpIdx>>

\* serde_json::to_writer(stdout(), &entries)?, one element of the array
DumpEntry ==
    /\ dumpPc = "serialize"
    /\ dumpIdx <= Len(dumpEntries)
    /\ Written(Serialize(dumpEntries[dumpIdx]))
    /\ UNCHANGED <<dumpArgs, dumpEntries>>

\* Ok(()) after the last element
DumpReturn ==
    /\ dumpPc = "serialize"
    /\ dumpIdx > Len(dumpEntries)
    /\ dumpPc' = "done"
    /\ UNCHANGED <<dumpArgs, dumpEntries, dumpIdx, dumpOut, dumpErr>>

InitDump == DumpInit /\ DerIdle /\ EkuIdle /\ RtIdle /\ FetchIdle

NextDump ==
    \/ DumpLoad /\ UNCHANGED <<derVars, ekuVars, rtVars, fetchVars>>
    \/ DumpEntry /\ UNCHANGED <<derVars, ekuVars, rtVars, fetchVars>>
    \/ DumpReturn /\ UNCHANGED <<derVars, ekuVars, rtVars, fetchVars>>

\* One of the three runs: an iteration of extended_key_usages, a dump, or
\* a fetch
InitConsumers == InitEku \/ InitDump \/ InitFetch

NextConsumers == NextEku \/ NextDump \/ NextFetch

SpecConsumers == InitConsumers /\ [][NextConsumers]_vars

----------------------------------------------------------------------------
(* Claims about the consumers of extended_key_usages, under SpecConsumers  *)

\* The places <<attribute, value>> of the values of the meta-EKU attributes
\* of a subject
PlacesOf(s) ==
    UNION {{<<a, v>> : v \in 1..Len(AttributesOf(s)[a].values)} :
            a \in {a \in 1..Len(AttributesOf(s)) :
                     AttributesOf(s)[a].oid = MS_CERT_PROP_ID_METAEKUS_OID}}

ValueOf(s, p) == AttributesOf(s)[p[1]].values[p[2]]

PlaceAt(s, k) ==
    CHOOSE p \in PlacesOf(s) :
        Cardinality({q \in PlacesOf(s) : q[1] < p[1] \/ (q[1] = p[1] /\ q[2] < p[2])})
            = k - 1

\* The value is an OCTET STRING whose bytes are no MetaEku
InnerFails(x) == x.tag = TagOctetString /\ ~MetaEkuFromDer(x.value).ok

HasInnerFailure(s) == \E p \in PlacesOf(s) : InnerFails(ValueOf(s, p))

\* What a value adds to the sequence: one error element when its wrapped
\* bytes fail, its OIDs when they decode; w is what a value that is no
\* OCTET STRING adds
Contribution(x, w) ==
    IF x.tag # TagOctetString THEN w
    ELSE IF InnerFails(x) THEN <<DerErr>>
    ELSE [i \in 1..Len(MetaEkuFromDer(x.value).val) |->
             Val(MetaEkuFromDer(x.value).val[i])]

Unwrapped(s) == {p \in PlacesOf(s) : ValueOf(s, p).tag # TagOctetString}

ElementsWith(s, w) ==
    Concat([k \in 1..Cardinality(PlacesOf(s)) |->
              Contribution(ValueOf(s, PlaceAt(s, k)),
                           IF PlaceAt(s, k) \in DOMAIN w THEN w[PlaceAt(s, k)] ELSE <<>>)])

FirstInnerFailure(es) ==
    CHOOSE i \in 1..Len(es) :
        HasInnerFailure(es[i]) /\ \A j \in 1..(i - 1) : ~HasInnerFailure(es[j])

\* C12: the iterator yields, value after value in their order, one error
\* element for a value whose wrapped bytes are no MetaEku and the OIDs of
\* a value that decodes, those after an error included; it ends only when
\* all are yielded.  dump and fetch stop at the first subject with such a
\* value: neither returns without an error when the list holds one, dump
\* has written the subjects before it and fetch has decided about no
\* subject with one.
C12_ContinuesPastError ==
    /\ epc \in {"iterating", "done"} =>
          /\ \E w \in [Unwrapped(subject) -> {<<>>, <<DerErr>>}] :
                yielded \o pending = ElementsWith(subject, w)
          /\ epc = "done" => pending = <<>>
    /\ \A i \in Decided : ~HasInnerFailure(entries[i])
    /\ (fpc = "done" /\ \E i \in 1..Len(entries) : HasInnerFailure(entries[i])) =>
          ferror # ""
    /\ (fpc = "done" /\ ferror = "Eku") => HasInnerFailure(entries[idx])
    /\ \A i \in 1..Len(dumpOut) : ~HasInnerFailure(dumpEntries[i])
    /\ (dumpPc = "done" /\ \E i \in 1..Len(dumpEntries) : HasInnerFailure(dumpEntries[i])) =>
          /\ dumpErr = "Json"
          /\ dumpIdx = FirstInnerFailure(dumpEntries)
          /\ Len(dumpOut) = dumpIdx - 1

\* The iterator went on after the error of the first value of the second
\* attribute: an OID before it, three after it
C12_Witness ==
    /\ epc = "done"
    /\ Len(AttributesOf(subject)) = 2
    /\ AttributesOf(subject)[1].values = <<ValuePool[4]>>
    /\ AttributesOf(subject)[2].values = <<ValuePool[3], ValuePool[5]>>
    /\ yielded = <<Val(KpOid(1)), DerErr, Val(KpOid(2)), Val(KpOid(4)), Val(KpOid(1))>>

----------------------------------------------------------------------------
(* Claims about the order of fetch, under SpecConsumers                    *)

DigitValue(c) ==
    CASE c = "0" -> 0 [] c = "1" -> 1 [] c = "2" -> 2 [] c = "3" -> 3
      [] c = "4" -> 4 [] c = "5" -> 5 [] c = "6" -> 6 [] c = "7" -> 7
      [] c = "8" -> 8 [] c = "9" -> 9 [] c = "a" -> 10 [] c = "b" -> 11
      [] c = "c" -> 12 [] c = "d" -> 13 [] c = "e" -> 14 [] c = "f" -> 15
      [] OTHER -> 16

\* h is b in lowercase hex: two digits for every octet and nothing between
IsLowerHexOf(h, b) ==
    /\ Len(h) = 2 * Len(b)
    /\ \A i \in 1..Len(b) :
          /\ DigitValue(h[2 * i - 1]) < 16
          /\ DigitValue(h[2 * i]) < 16
          /\ 16 * DigitValue(h[2 * i - 1]) + DigitValue(h[2 * i]) = b[i]

ResponseFailures == {"Transport", "Status", "X509"}

\* The entry at idx was selected and its request is out: fetch waits for the
\* answer, or has stopped because of it
AtRequest == fpc = "request" \/ (fpc = "done" /\ ferror \in ResponseFailures)

\* The entries fetch selected so far, and the k-th of them in list order
SelectedSoFar ==
    {i \in 1..Len(entries) : i \notin skipped /\ (i < idx \/ (i = idx /\ AtRequest))}

NthSelected(k) ==
    CHOOSE i \in SelectedSoFar : Cardinality({j \in SelectedSoFar : j < i}) = k - 1

\* C13: no request goes out before the output file was created, and none
\* at all when the path exists; the requests are those of the selected
\* entries, one for every occurrence and in list order, each addressed by
\* the lowercase hex of its identifier without separators, which is how
\* dump renders it; and when fetch has stopped at its first failure the
\* output holds the records of the requests answered before it, in order,
\* and nothing was requested for a later entry.
C13_FetchOrder ==
    /\ requested # <<>> => created
    /\ (fpc # "idle" /\ fargs.output_exists) =>
          /\ ~created /\ requested = <<>> /\ output = <<>>
          /\ fpc = "done" => ferror # ""
    /\ Len(requested) = Cardinality(SelectedSoFar)
    /\ \A k \in 1..Len(requested) :
          /\ requested[k].prefix =
                "http://www.download.windowsupdate.com/msdownload/update/v3/static/trustedr/en/"
          /\ IsLowerHexOf(requested[k].id, entries[NthSelected(k)].identifier)
          /\ requested[k].suffix = ".crt"
    /\ Len(output) <= Len(requested)
    /\ output = SubSeq(requested, 1, Len(output))
    /\ Len(output) = IF AtRequest THEN Len(requested) - 1 ELSE Len(requested)
    /\ (fpc = "done" /\ ferror = "") => idx = Len(entries) + 1
    /\ \A i \in 1..Len(dumpOut) :
          IsLowerHexOf(dumpOut[i].identifier, dumpEntries[i].identifier)

\* The same subject is listed twice and was requested twice; the second
\* answer had no success status, and the output holds the first record
C13_Witness ==
    /\ fpc = "done"
    /\ ferror = "Status"
    /\ created
    /\ entries = <<SubjectWith(2, ValuePool[4]), SubjectWith(2, ValuePool[4])>>
    /\ idx = 2
    /\ requested = <<Url(<<"a", "a", "b", "b", "0", "2">>), Url(<<"a", "a", "b", "b", "0", "2">>)>>
    /\ output = <<Url(<<"a", "a", "b", "b", "0", "2">>)>>

=============================================================================
